---- MODULE Spec2Model ----
(***************************************************************************)
(* State-machine model of the media-capture components of ai-interview:    *)
(*   "VC"  - src/src/components/VideoChat.tsx          (VideoChat)         *)
(*   "IVC" - src/src/components/ImprovedVideoChat.tsx  (ImprovedVideoChat) *)
(*   "Rec" - src/tailwind.config.js lines 33-368       (recorder App)      *)
(* and of the code editor src/src/components/EnhancedCodeEditor.tsx, which *)
(* ImprovedVideoChat hosts.                                                *)
(*                                                                         *)
(* One component is mounted per behaviour (comp).  React semantics:        *)
(*  - a useState value is the latest value queued by a setter;             *)
(*  - `rendered` is the snapshot of those values captured by the closures  *)
(*    of the last committed render; event handlers read it, and they may   *)
(*    be invoked whenever the last committed render shows their button;    *)
(*  - Render commits a new snapshot and runs the [isRecording] effect;     *)
(*  - useRef cells are read and written directly;                          *)
(*  - setters called after unmount are no-ops, ref writes are not.         *)
(* Every handler runs to completion (JavaScript run-to-completion); the    *)
(* part of an async handler after an `await` is a separate action.         *)
(***************************************************************************)
EXTENDS Naturals, Integers, Sequences, FiniteSets, TLC

\* ---- bounds of the exploration -----------------------------------------
\* Spec: any of the three components, with overlapping start requests
MaxStreams   == 2   \* media streams the platform hands out
MaxPending   == 2   \* permission requests in flight at once
MaxSockets   == 2   \* WebSocket objects constructed
MaxChunks    == 1   \* non-empty chunks the encoders produce in total
MaxTime      == 1   \* cap of the elapsed-seconds counter
MaxMessages  == 6   \* cap of the VideoChat message log
MaxDownloads == 1   \* clicks on the Download button
\* SpecRec: the recorder alone, one start request after the other
RecMaxStarts == 1   \* start requests, hence streams and sockets
RecMaxChunks == 1   \* non-empty chunks the encoder produces in total
RecMaxTime   == 1   \* cap of the elapsed-seconds counter
\* SpecTmr: the elapsed-seconds interval of any of the three components
TmrMaxStarts == 1   \* start requests, hence streams and sockets
TmrMaxTime   == 2   \* cap of the elapsed-seconds counter
\* SpecEd: the code editor
MaxTabs      == 1   \* Tab keys the textarea handles
\* SpecArt: the artifacts of successive recordings
ArtMaxChunks == 4   \* non-empty chunks the encoders produce in total
\* SpecCad: the timeslice events of the recordings
CadMaxChunks == 2   \* non-empty chunks the encoders produce in total
CadMaxSlices == 3   \* timeslice events the platform delivers to a recorder
\* SpecFwd: the chunk pipeline (buffer, convert, send) of one recording
FwdMaxChunks == 2   \* non-empty chunks the encoder produces in total

Components == {"VC", "IVC", "Rec"}
Types      == {"webcam", "screen"}
null       == 0

VARIABLES
  comp,            \* which component is mounted
  limit,           \* the bounds of the exploration, fixed by Init
  supported,       \* the types MediaRecorder.isTypeSupported accepts
  editor,          \* EnhancedCodeEditor and its host: [language, code
                   \*   (useState cells), initialLanguage (the prop of the
                   \*   last render), hostLanguage, hostCode (what the host
                   \*   keeps from onLanguageChange and onChange), edited
                   \*   (history: the user has changed the text, through
                   \*   handleChange or handleTab), tabs (history: the
                   \*   number of Tab keys handled)]
  mounted,         \* FALSE after the component unmounted
  \* ---- useState cells
  isRecording, recordingTime, isMuted, isLoading, streamError, messages,
  recordingType, recordedChunks, previewUrl,
  rendered,        \* values captured by the closures of the last render
  \* ---- useRef cells
  streamRef, srcObject, timerRef, mediaRecorderRef, websocketRef,
  \* ---- platform objects
  streams,         \* Seq of MediaStream: [live, audio]
  timers,          \* set of interval ids that are still scheduled
  nextTimer,       \* next interval id window.setInterval returns
  pending,         \* getUserMedia/getDisplayMedia promises not yet settled
  sockets,         \* Seq of WebSocket: [state, isRecording (closure),
                   \*   closedWhile (history: status at its close event)]
  recorders,       \* Seq of MediaRecorder: [stream, state, chunks, mimeType,
                   \*   slices, empty (history: the timeslice events it
                   \*   was delivered, and those of them with e.data.size
                   \*   0, both counted up to limit.slices)]
  produced,        \* number of non-empty chunks produced so far
  reconnects,      \* Seq of pending reconnect setTimeout closures
  converting,      \* chunks whose e.data.arrayBuffer() is still pending
  wire,            \* Seq of the calls of WebSocket.send: [chunk, socket,
                   \*   state (readyState of that socket at the call)]
  revoked,         \* object URLs passed to URL.revokeObjectURL
  justStopped,     \* the handler that ran last was a stop handler
  endReset         \* history: the recorder that stopRecording had just
                   \*   stopped when resetRecording ran (null otherwise)

state    == <<isRecording, recordingTime, isMuted, isLoading, streamError,
              messages, recordingType, recordedChunks, previewUrl>>
refs     == <<streamRef, srcObject, timerRef, mediaRecorderRef, websocketRef>>
platform == <<streams, timers, nextTimer, pending, sockets, recorders,
              produced, reconnects, converting, wire, revoked>>
vars     == <<comp, limit, supported, editor, mounted, state, rendered, refs, platform,
              justStopped, endReset>>

\* ---- helpers -----------------------------------------------------------
\* a useState setter: ignored once the component is unmounted
SetState(cur, new) == IF mounted THEN new ELSE cur

\* the values a render captures in its closures
Snapshot == [isRecording |-> isRecording, isMuted |-> isMuted,
             isLoading |-> isLoading, previewUrl |-> previewUrl,
             recordedChunks |-> recordedChunks]

NewStream == [live |-> TRUE, audio |-> TRUE]

\* stream.getTracks().forEach(track => track.stop())
StopTracks(strs, s) ==
  IF s = null THEN strs ELSE [strs EXCEPT ![s].live = FALSE]

\* stream.getAudioTracks().forEach(track => { track.enabled = v })
SetAudioEnabled(strs, s, v) ==
  IF s = null THEN strs ELSE [strs EXCEPT ![s].audio = v]

\* if (timerRef.current) clearInterval(timerRef.current)
ClearTimer(ts) == IF timerRef # null THEN ts \ {timerRef} ELSE ts

PendingCount == pending["webcam"] + pending["screen"]

\* bookkeeping of the handler that runs in this step
Did(name) ==
  /\ justStopped' = (name = "stop")
  /\ endReset' = CASE name = "reset" ->
                       IF justStopped THEN mediaRecorderRef ELSE null
                  [] name \in {"start", "stop", "resolved"} -> null
                  [] OTHER -> endReset

\* a Message of the chat log; its timestamp (new Date()) is left out
Message(sender, text) == [sender |-> sender, text |-> text]

InitialMessages ==
  << Message("system", "Welcome to the coding session!"),
     Message("user", "I need help with my React component."),
     Message("assistant",
             "I'd be happy to help with your React component. What specific issue are you having?") >>

\* getMimeType: the ordered preference list and the probing loop
types == <<"video/webm;codecs=vp8,opus", "video/webm;codecs=vp9,opus",
           "video/webm;codecs=h264,opus", "video/mp4">>

RECURSIVE ProbeFrom(_)
\* for (const type of types) if (MediaRecorder.isTypeSupported(type)) return
\* type; ... return 'video/webm', from position n of the list on
ProbeFrom(n) ==
  IF n > Len(types) THEN "video/webm"
  ELSE IF types[n] \in supported THEN types[n]
  ELSE ProbeFrom(n + 1)

getMimeType_secondChoice == ProbeFrom(2)

getMimeType == ProbeFrom(1)

\* ---- EnhancedCodeEditor: language table and first render ---------------
\* ../utils/language is not part of the sources: the table is taken to hold
\* one entry per language, each with a snippet of its own
languageOptions ==
  << [value |-> "javascript", default |-> "// javascript"],
     [value |-> "python",     default |-> "# python"],
     [value |-> "java",       default |-> "// java"] >>

LanguageValues == {languageOptions[n].value : n \in 1..Len(languageOptions)}
Snippets       == {languageOptions[n].default : n \in 1..Len(languageOptions)}

\* what a host may pass as initialLanguage: a language of the table or not
PropValues == LanguageValues \cup {"plaintext"}
\* what the user may leave in the textarea
Texts      == Snippets \cup {"", "let x = 1"}

RECURSIVE FindFrom(_, _)
\* languageOptions.find(lang => lang.value === v), from position n on;
\* null stands for undefined
FindFrom(n, v) ==
  IF n > Len(languageOptions) THEN null
  ELSE IF languageOptions[n].value = v THEN n
  ELSE FindFrom(n + 1, v)

\* languageOptions.find(lang => lang.value === v) || languageOptions[0]
OptionOr0(v) ==
  IF FindFrom(1, v) # null THEN languageOptions[FindFrom(1, v)]
  ELSE languageOptions[1]

\* the hosts of the editor: ImprovedVideoChat, whose initialLanguage prop is
\* its own `language` cell, and "Editor", a host that passes a constant
Hosts == {"IVC", "Editor"}

\* useState(defaultLanguageOption.value),
\* useState(initialCode || defaultLanguageOption.default)
EditorMounted(initialLanguage, initialCode, hostLanguage, hostCode) ==
  [language        |-> OptionOr0(initialLanguage).value,
   code            |-> IF initialCode # "" THEN initialCode
                       ELSE OptionOr0(initialLanguage).default,
   initialLanguage |-> initialLanguage,
   hostLanguage    |-> hostLanguage,
   hostCode        |-> hostCode,
   edited          |-> FALSE,
   tabs            |-> 0]

\* the editor after the first render of host h
EditorMounts(h) ==
  CASE h = "IVC" ->
         {EditorMounted(languageOptions[1].value, languageOptions[1].default,
                        languageOptions[1].value, languageOptions[1].default)}
    [] h = "Editor" ->
         {EditorMounted(p, "", "null", "null") : p \in PropValues}
    [] OTHER ->
         {[language |-> "null", code |-> "null", initialLanguage |-> "null",
           hostLanguage |-> "null", hostCode |-> "null", edited |-> FALSE,
           tabs |-> 0, slices |-> 0]}

\* the platforms: any set of the probed types may be supported
Platforms == SUBSET {types[n] : n \in 1..Len(types)}

\* the state after the first render of a component of C, explored up to lim,
\* on one of the platforms P
MountedOn(C, lim, P) ==
  /\ supported \in P
  /\ comp \in C
  /\ editor \in EditorMounts(comp)
  /\ limit = lim
  /\ mounted = TRUE
  /\ isRecording = FALSE /\ recordingTime = 0 /\ isMuted = FALSE
  /\ isLoading = FALSE /\ streamError = "null"
  /\ messages = IF comp = "VC" THEN InitialMessages ELSE <<>>
  /\ recordingType = "null" /\ recordedChunks = <<>> /\ previewUrl = null
  /\ rendered = [isRecording |-> FALSE, isMuted |-> FALSE,
                 isLoading |-> FALSE, previewUrl |-> null,
                 recordedChunks |-> <<>>]
  /\ streamRef = null /\ srcObject = null /\ timerRef = null
  /\ mediaRecorderRef = null /\ websocketRef = null
  /\ streams = <<>> /\ timers = {} /\ nextTimer = 1
  /\ pending = [t \in Types |-> 0]
  /\ sockets = <<>> /\ recorders = <<>> /\ produced = 0
  /\ reconnects = <<>>
  /\ converting = {} /\ wire = <<>> /\ revoked = {}
  /\ justStopped = FALSE /\ endReset = null

\* ... on a platform that supports every probed type
Mounted(C, lim) == MountedOn(C, lim, {{types[n] : n \in 1..Len(types)}})

Init ==
  Mounted(Components,
          [streams |-> MaxStreams, pending |-> MaxPending,
           sockets |-> MaxSockets, chunks |-> MaxChunks, time |-> MaxTime,
           messages |-> MaxMessages, downloads |-> MaxDownloads, tabs |-> 0,
           slices |-> 0])

\* the recorder alone, with one click on Download
InitRec ==
  Mounted({"Rec"},
          [streams |-> RecMaxStarts, pending |-> RecMaxStarts,
           sockets |-> RecMaxStarts, chunks |-> RecMaxChunks,
           time |-> RecMaxTime, messages |-> 0, downloads |-> 1, tabs |-> 0,
           slices |-> 0])

\* one click on a start button, followed through to the artifact
InitFwd ==
  Mounted({"Rec"},
          [streams |-> 1, pending |-> 1, sockets |-> 1,
           chunks |-> FwdMaxChunks, time |-> 0, messages |-> 0,
           downloads |-> MaxDownloads, tabs |-> 0, slices |-> 0])

\* any component, with one click on Download
InitTmr ==
  Mounted(Components,
          [streams |-> TmrMaxStarts, pending |-> TmrMaxStarts,
           sockets |-> TmrMaxStarts, chunks |-> MaxChunks, time |-> TmrMaxTime,
           messages |-> MaxMessages, downloads |-> 1, tabs |-> 0,
           slices |-> 0])

\* one click on a start button, on any platform
InitMime ==
  MountedOn({"Rec"},
            [streams |-> 1, pending |-> 1, sockets |-> 1,
             chunks |-> FwdMaxChunks, time |-> 0, messages |-> 0,
             downloads |-> MaxDownloads, tabs |-> 0, slices |-> 0],
            Platforms)

\* two clicks on a start button while the server never accepts a
\* connection, or one click with a server that does; up to ch chunks in the
\* first case and one fewer in the second, and sl counted timeslice events
TwoOrOne(ch, sl) ==
  \/ Mounted({"Rec"},
             [streams |-> 2, pending |-> 2, sockets |-> 2, chunks |-> ch,
              time |-> 0, messages |-> 0, downloads |-> 1, tabs |-> 0,
              slices |-> sl, opens |-> 0])
  \/ Mounted({"Rec"},
             [streams |-> 1, pending |-> 1, sockets |-> 1, chunks |-> ch - 1,
              time |-> 0, messages |-> 0, downloads |-> 1, tabs |-> 0,
              slices |-> sl, opens |-> 1])

InitArt == TwoOrOne(ArtMaxChunks, 0)

InitCad == TwoOrOne(CadMaxChunks, CadMaxSlices)

\* the editor alone, under either host
InitEd ==
  Mounted(Hosts,
          [streams |-> 0, pending |-> 0, sockets |-> 0, chunks |-> 0,
           time |-> 0, messages |-> 0, downloads |-> 0, tabs |-> MaxTabs,
           slices |-> 0])

\* ---- the [isRecording] timer effect and the render that runs it --------
\* Cleanup of the previous effect, then the effect body, for the new value
\* of isRecording.  VideoChat.tsx 52-68, ImprovedVideoChat.tsx 32-48,
\* tailwind.config.js 48-67 (which also resets recordingDuration).
TimerEffectTimers_noCleanup(rec) ==
  IF rec THEN timers \cup {nextTimer} ELSE timers

TimerEffectTimers(rec) ==
  IF rec THEN ClearTimer(timers) \cup {nextTimer} ELSE ClearTimer(timers)

TimerEffectRef(rec) == IF rec THEN nextTimer ELSE timerRef

Render ==
  /\ mounted
  /\ rendered # Snapshot
  /\ rendered' = Snapshot
  /\ IF rendered.isRecording # isRecording
       THEN /\ timers' = TimerEffectTimers(isRecording)
            /\ timerRef' = TimerEffectRef(isRecording)
            /\ nextTimer' = IF isRecording THEN nextTimer + 1 ELSE nextTimer
            /\ recordingTime' = IF comp = "Rec" /\ ~isRecording
                                  THEN 0 ELSE recordingTime
       ELSE UNCHANGED <<timers, timerRef, nextTimer, recordingTime>>
  /\ Did("Render")
  /\ UNCHANGED <<comp, limit, supported, editor, mounted, isRecording, isMuted, isLoading, streamError,
                 messages, recordingType, recordedChunks, previewUrl,
                 streamRef, srcObject, mediaRecorderRef, websocketRef,
                 streams, pending, sockets, recorders, produced, reconnects,
                 converting, wire, revoked>>

\* the setInterval callback: setRecordingTime(prev => prev + 1)
Tick(t) ==
  /\ t \in timers
  /\ recordingTime < limit.time
  /\ recordingTime' = SetState(recordingTime, recordingTime + 1)
  /\ Did("Tick")
  /\ UNCHANGED <<comp, limit, supported, editor, mounted, isRecording, isMuted, isLoading, streamError,
                 messages, recordingType, recordedChunks, previewUrl,
                 rendered, refs, platform>>

\* ---- VideoChat ---------------------------------------------------------
VC_toggleMute ==
  /\ comp = "VC" /\ mounted /\ rendered.isRecording
  /\ IF streamRef # null
       THEN /\ streams' = SetAudioEnabled(streams, streamRef, rendered.isMuted)
            /\ isMuted' = ~rendered.isMuted
       ELSE UNCHANGED <<streams, isMuted>>
  /\ Did("toggleMute")
  /\ UNCHANGED <<comp, limit, supported, editor, mounted, isRecording, recordingTime, isLoading,
                 streamError, messages, recordingType, recordedChunks,
                 previewUrl, rendered, refs, timers, nextTimer, pending,
                 sockets, recorders, produced, reconnects, converting, wire, revoked>>

\* startWebcam up to the await
VC_startWebcam ==
  /\ comp = "VC" /\ mounted
  /\ ~rendered.isRecording /\ ~rendered.isLoading
  /\ PendingCount < limit.pending
  /\ Len(messages) + PendingCount < limit.messages
  /\ isLoading' = TRUE
  /\ pending' = [pending EXCEPT !["webcam"] = @ + 1]
  /\ Did("start")
  /\ UNCHANGED <<comp, limit, supported, editor, mounted, isRecording, recordingTime, isMuted,
                 streamError, messages, recordingType, recordedChunks,
                 previewUrl, rendered, refs, streams, timers, nextTimer,
                 sockets, recorders, produced, reconnects, converting, wire, revoked>>

\* startWebcam after getUserMedia resolved
VC_startWebcam_resolved ==
  /\ comp = "VC"
  /\ pending["webcam"] > 0
  /\ Len(streams) < limit.streams
  /\ pending' = [pending EXCEPT !["webcam"] = @ - 1]
  /\ streams' = Append(streams, NewStream)
  /\ streamRef' = Len(streams) + 1
  /\ srcObject' = IF mounted THEN Len(streams) + 1 ELSE srcObject
  /\ isRecording' = SetState(isRecording, TRUE)
  /\ isLoading' = SetState(isLoading, FALSE)
  /\ messages' = SetState(messages,
       Append(messages, Message("system", "Recording started.")))
  /\ Did("resolved")
  /\ UNCHANGED <<comp, limit, supported, editor, mounted, recordingTime, isMuted, streamError,
                 recordingType, recordedChunks, previewUrl, rendered,
                 timerRef, mediaRecorderRef, websocketRef, timers, nextTimer,
                 sockets, recorders, produced, reconnects, converting, wire, revoked>>

\* startWebcam's catch block after getUserMedia rejected
VC_startWebcam_rejected ==
  /\ comp = "VC"
  /\ pending["webcam"] > 0
  /\ pending' = [pending EXCEPT !["webcam"] = @ - 1]
  /\ isLoading' = SetState(isLoading, FALSE)
  /\ messages' = SetState(messages,
       Append(messages,
              Message("system", "Error accessing webcam: " \o "message")))
  /\ Did("rejected")
  /\ UNCHANGED <<comp, limit, supported, editor, mounted, isRecording, recordingTime, isMuted,
                 streamError, recordingType, recordedChunks, previewUrl,
                 rendered, refs, streams, timers, nextTimer, sockets,
                 recorders, produced, reconnects, converting, wire, revoked>>

VC_stopWebcam ==
  /\ comp = "VC" /\ mounted
  /\ rendered.isRecording /\ ~rendered.isLoading
  /\ Len(messages) + PendingCount < limit.messages
  /\ streams' = StopTracks(streams, streamRef)
  /\ streamRef' = null
  /\ srcObject' = null
  /\ isRecording' = FALSE
  /\ recordingTime' = 0
  /\ isMuted' = FALSE
  /\ messages' = Append(messages, Message("system", "Recording stopped."))
  /\ Did("stop")
  /\ UNCHANGED <<comp, limit, supported, editor, mounted, isLoading, streamError, recordingType,
                 recordedChunks, previewUrl, rendered, timerRef,
                 mediaRecorderRef, websocketRef, timers, nextTimer, pending,
                 sockets, recorders, produced, reconnects, converting, wire, revoked>>

\* both effect cleanups of VideoChat run at unmount
VC_unmount ==
  /\ comp = "VC" /\ mounted
  /\ mounted' = FALSE
  /\ streams' = StopTracks(streams, streamRef)
  /\ timers' = ClearTimer(timers)
  /\ Did("unmount")
  /\ UNCHANGED <<comp, limit, supported, editor, state, rendered, refs, nextTimer, pending, sockets,
                 recorders, produced, reconnects, converting, wire, revoked>>

\* ---- ImprovedVideoChat -------------------------------------------------
IVC_toggleMute ==
  /\ comp = "IVC" /\ mounted /\ rendered.isRecording
  /\ streams' = SetAudioEnabled(streams, streamRef, rendered.isMuted)
  /\ isMuted' = ~rendered.isMuted
  /\ Did("toggleMute")
  /\ UNCHANGED <<comp, limit, supported, editor, mounted, isRecording, recordingTime, isLoading,
                 streamError, messages, recordingType, recordedChunks,
                 previewUrl, rendered, refs, timers, nextTimer, pending,
                 sockets, recorders, produced, reconnects, converting, wire, revoked>>

IVC_startRecording ==
  /\ comp = "IVC" /\ mounted
  /\ ~rendered.isRecording
  /\ PendingCount < limit.pending
  /\ streamError' = "null"
  /\ pending' = [pending EXCEPT !["webcam"] = @ + 1]
  /\ Did("start")
  /\ UNCHANGED <<comp, limit, supported, editor, mounted, isRecording, recordingTime, isMuted,
                 isLoading, messages, recordingType, recordedChunks,
                 previewUrl, rendered, refs, streams, timers, nextTimer,
                 sockets, recorders, produced, reconnects, converting, wire, revoked>>

IVC_startRecording_resolved ==
  /\ comp = "IVC"
  /\ pending["webcam"] > 0
  /\ Len(streams) < limit.streams
  /\ pending' = [pending EXCEPT !["webcam"] = @ - 1]
  /\ streams' = Append(streams, NewStream)
  /\ streamRef' = Len(streams) + 1
  /\ srcObject' = IF mounted THEN Len(streams) + 1 ELSE srcObject
  /\ isRecording' = SetState(isRecording, TRUE)
  /\ Did("resolved")
  /\ UNCHANGED <<comp, limit, supported, editor, mounted, recordingTime, isMuted, isLoading,
                 streamError, messages, recordingType, recordedChunks,
                 previewUrl, rendered, timerRef, mediaRecorderRef,
                 websocketRef, timers, nextTimer, sockets, recorders,
                 produced, reconnects, converting, wire, revoked>>

IVC_startRecording_rejected ==
  /\ comp = "IVC"
  /\ pending["webcam"] > 0
  /\ pending' = [pending EXCEPT !["webcam"] = @ - 1]
  /\ streamError' = SetState(streamError, "message")
  /\ Did("rejected")
  /\ UNCHANGED <<comp, limit, supported, editor, mounted, isRecording, recordingTime, isMuted,
                 isLoading, messages, recordingType, recordedChunks,
                 previewUrl, rendered, refs, streams, timers, nextTimer,
                 sockets, recorders, produced, reconnects, converting, wire, revoked>>

\* stopRecording, with its call of stopMediaTracks
IVC_stopRecording ==
  /\ comp = "IVC" /\ mounted
  /\ rendered.isRecording
  /\ streams' = StopTracks(streams, streamRef)
  /\ streamRef' = null
  /\ srcObject' = null
  /\ isRecording' = FALSE
  /\ recordingTime' = 0
  /\ isMuted' = FALSE
  /\ Did("stop")
  /\ UNCHANGED <<comp, limit, supported, editor, mounted, isLoading, streamError, messages,
                 recordingType, recordedChunks, previewUrl, rendered,
                 timerRef, mediaRecorderRef, websocketRef, timers, nextTimer,
                 pending, sockets, recorders, produced, reconnects, converting, wire,
                 revoked>>

\* both effect cleanups of ImprovedVideoChat run at unmount
IVC_unmount ==
  /\ comp = "IVC" /\ mounted
  /\ mounted' = FALSE
  /\ streams' = StopTracks(streams, streamRef)
  /\ streamRef' = null
  /\ timers' = ClearTimer(timers)
  /\ Did("unmount")
  /\ UNCHANGED <<comp, limit, supported, editor, state, rendered, srcObject, timerRef,
                 mediaRecorderRef, websocketRef, nextTimer, pending, sockets,
                 recorders, produced, reconnects, converting, wire, revoked>>

\* ---- recorder (tailwind.config.js 33-368) -------------------------------
\* ws.onclose: "Only attempt to reconnect if we're still recording".  The
\* isRecording it reads is the const of the render whose startRecording
\* called setupWebSocket, stored with the socket when it is constructed.
ShouldReconnect_always(ws) == TRUE

ShouldReconnect(ws) == ws.isRecording

\* new WebSocket(...) with its handlers; websocketRef.current = ws
setupWebSocket(closureIsRecording) ==
  /\ sockets' = Append(sockets, [state |-> "connecting",
                                 isRecording |-> closureIsRecording,
                                 closedWhile |-> "none"])
  /\ websocketRef' = Len(sockets) + 1

\* websocketRef.current.close(): starts the closing handshake
CloseSocket(socks, w) ==
  IF w # null /\ socks[w].state \in {"connecting", "open"}
    THEN [socks EXCEPT ![w].state = "closing"]
    ELSE socks

\* the part of ondataavailable that runs before its await:
\* chunks.push(e.data) when e.data.size > 0
PushChunk_onlyIfOpen(r, k, nonEmpty) ==
  [r EXCEPT !.chunks =
     IF nonEmpty /\ websocketRef # null /\ sockets[websocketRef].state = "open"
       THEN Append(@, k) ELSE @]

PushChunk(r, k, nonEmpty) ==
  [r EXCEPT !.chunks = IF nonEmpty THEN Append(@, k) ELSE @]

\* ... and the open-state check that starts e.data.arrayBuffer()
StartForward_ignoreSize(k, nonEmpty) ==
  IF websocketRef # null /\ sockets[websocketRef].state = "open"
    THEN converting \cup {k}
    ELSE converting

StartForward(k, nonEmpty) ==
  IF nonEmpty /\ websocketRef # null /\ sockets[websocketRef].state = "open"
    THEN converting \cup {k}
    ELSE converting

\* the sizes e.data may have while the exploration still produces chunks
DataSizes == IF produced < limit.chunks THEN BOOLEAN ELSE {FALSE}

\* startRecording up to the await
Rec_startRecording(type) ==
  /\ comp = "Rec" /\ mounted
  /\ ~rendered.isRecording /\ rendered.previewUrl = null
  /\ PendingCount < limit.pending
  /\ Len(sockets) < limit.sockets
  /\ IF rendered.previewUrl # null
       THEN /\ revoked' = revoked \cup {rendered.previewUrl}
            /\ previewUrl' = null
       ELSE UNCHANGED <<revoked, previewUrl>>
  /\ setupWebSocket(rendered.isRecording)
  /\ pending' = [pending EXCEPT ![type] = @ + 1]
  /\ Did("start")
  /\ UNCHANGED <<comp, limit, supported, editor, mounted, isRecording, recordingTime, isMuted,
                 isLoading, streamError, messages, recordingType,
                 recordedChunks, rendered, streamRef, srcObject, timerRef,
                 mediaRecorderRef, streams, timers, nextTimer, recorders,
                 produced, reconnects, converting, wire>>

\* new MediaRecorder(stream, {mimeType: getMimeType()}) with the array
\* `const chunks: Blob[] = []` its handlers close over (167-172)
NewRecorder_sharedChunks(s) ==
  [stream |-> s, state |-> "recording",
   chunks |-> IF recorders = <<>> THEN <<>>
              ELSE recorders[Len(recorders)].chunks,
   mimeType |-> getMimeType, slices |-> 0, empty |-> 0]

NewRecorder(s) ==
  [stream |-> s, state |-> "recording", chunks |-> <<>>,
   mimeType |-> getMimeType, slices |-> 0, empty |-> 0]

\* startRecording after the media promise resolved; ctorOk = FALSE when
\* new MediaRecorder(...) throws, which lands in the catch block
Rec_startRecording_resolved(type, ctorOk) ==
  /\ comp = "Rec"
  /\ pending[type] > 0
  /\ Len(streams) < limit.streams
  /\ pending' = [pending EXCEPT ![type] = @ - 1]
  /\ streams' = Append(streams, NewStream)
  /\ streamRef' = Len(streams) + 1
  /\ srcObject' = IF mounted THEN Len(streams) + 1 ELSE srcObject
  /\ IF ctorOk
       THEN /\ recorders' = Append(recorders, NewRecorder(Len(streams) + 1))
            /\ mediaRecorderRef' = Len(recorders) + 1
            /\ isRecording' = SetState(isRecording, TRUE)
            /\ recordingType' = SetState(recordingType, type)
       ELSE UNCHANGED <<recorders, mediaRecorderRef, isRecording,
                        recordingType>>
  /\ Did("resolved")
  /\ UNCHANGED <<comp, limit, supported, editor, mounted, recordingTime, isMuted, isLoading,
                 streamError, messages, recordedChunks, previewUrl, rendered,
                 timerRef, websocketRef, timers, nextTimer, sockets,
                 produced, reconnects, converting, wire, revoked>>

\* startRecording's catch block after the media promise rejected
Rec_startRecording_rejected(type) ==
  /\ comp = "Rec"
  /\ pending[type] > 0
  /\ pending' = [pending EXCEPT ![type] = @ - 1]
  /\ Did("rejected")
  /\ UNCHANGED <<comp, limit, supported, editor, mounted, state, rendered, refs, streams, timers,
                 nextTimer, sockets, recorders, produced, reconnects, converting, wire,
                 revoked>>

\* history: one more timeslice event delivered to recorder r
CountSlice(r, nonEmpty) ==
  IF r.slices < limit.slices
    THEN [r EXCEPT !.slices = @ + 1,
                   !.empty = IF nonEmpty THEN @ ELSE @ + 1]
    ELSE r

\* a timeslice dataavailable event of recorder i (mediaRecorder.start(1000)
\* delivers one for every full second of recording)
mediaRecorder_ondataavailable(i, nonEmpty) ==
  /\ comp = "Rec"
  /\ recorders[i].state = "recording"
  /\ streams[recorders[i].stream].live
  /\ nonEmpty \in DataSizes
  /\ recorders' = [recorders EXCEPT
       ![i] = CountSlice(PushChunk(@, produced + 1, nonEmpty), nonEmpty)]
  /\ produced' = IF nonEmpty THEN produced + 1 ELSE produced
  /\ converting' = StartForward(produced + 1, nonEmpty)
  /\ Did("ondataavailable")
  /\ UNCHANGED <<comp, limit, supported, editor, mounted, state, rendered, refs, streams, timers,
                 nextTimer, pending, sockets, reconnects, wire, revoked>>

\* ondataavailable after its await: websocketRef.current.send(arrayBuffer),
\* on whatever socket the ref holds by then and in whatever state it is.
\* (The platform discards the data on a CLOSING/CLOSED socket and throws
\* inside the async callback on a CONNECTING one.)
ondataavailable_send(c) ==
  /\ comp = "Rec"
  /\ c \in converting
  /\ converting' = converting \ {c}
  /\ wire' = Append(wire, [chunk |-> c, socket |-> websocketRef,
                           state |-> sockets[websocketRef].state])
  /\ Did("send")
  /\ UNCHANGED <<comp, limit, supported, editor, mounted, state, rendered, refs, streams, timers,
                 nextTimer, pending, sockets, recorders, produced, reconnects, revoked>>

\* URL.createObjectURL(new Blob(chunks)): the URL names recorder i's blob
CreateObjectURL_noneIfEmpty(i, chunks) == IF chunks = <<>> THEN null ELSE i

CreateObjectURL(i, chunks) == i

\* The task MediaRecorder.stop() queues (also queued by the platform when
\* every track of the recorded stream has ended): the final dataavailable
\* event, then the stop event with the onstop handler.
mediaRecorder_onstop(i, nonEmpty) ==
  /\ comp = "Rec"
  /\ \/ recorders[i].state = "stopping"
     \/ /\ recorders[i].state = "recording"
        /\ ~streams[recorders[i].stream].live
  /\ nonEmpty \in DataSizes
  /\ recorders' = [recorders EXCEPT
       ![i] = [PushChunk(@, produced + 1, nonEmpty) EXCEPT !.state = "inactive"]]
  /\ produced' = IF nonEmpty THEN produced + 1 ELSE produced
  /\ converting' = StartForward(produced + 1, nonEmpty)
  /\ recordedChunks' = SetState(recordedChunks, recorders'[i].chunks)
  /\ streams' = StopTracks(streams, streamRef)
  /\ srcObject' = IF mounted THEN null ELSE srcObject
  /\ sockets' = CloseSocket(sockets, websocketRef)
  /\ previewUrl' = SetState(previewUrl,
                            CreateObjectURL(i, recorders'[i].chunks))
  /\ Did("onstop")
  /\ UNCHANGED <<comp, limit, supported, editor, mounted, isRecording, recordingTime, isMuted,
                 isLoading, streamError, messages, recordingType, rendered,
                 streamRef, timerRef, mediaRecorderRef, websocketRef, timers,
                 nextTimer, pending, reconnects, wire, revoked>>

\* mediaRecorder.stop(): a no-op on a recorder that is not recording
StopRecorder(recs, m) ==
  IF recs[m].state = "recording"
    THEN [recs EXCEPT ![m].state = "stopping"]
    ELSE recs

Rec_stopRecording ==
  /\ comp = "Rec" /\ mounted
  /\ rendered.isRecording
  /\ IF mediaRecorderRef # null /\ rendered.isRecording
       THEN /\ recorders' = StopRecorder(recorders, mediaRecorderRef)
            /\ isRecording' = FALSE
            /\ recordingType' = "null"
       ELSE UNCHANGED <<recorders, isRecording, recordingType>>
  /\ Did("stop")
  /\ UNCHANGED <<comp, limit, supported, editor, mounted, recordingTime, isMuted, isLoading,
                 streamError, messages, recordedChunks, previewUrl, rendered,
                 refs, streams, timers, nextTimer, pending, sockets,
                 produced, reconnects, converting, wire, revoked>>

Rec_resetRecording ==
  /\ comp = "Rec" /\ mounted
  /\ rendered.previewUrl # null
  /\ revoked' = IF rendered.previewUrl # null
                  THEN revoked \cup {rendered.previewUrl} ELSE revoked
  /\ previewUrl' = null
  /\ recordedChunks' = <<>>
  /\ Did("reset")
  /\ UNCHANGED <<comp, limit, supported, editor, mounted, isRecording, recordingTime, isMuted,
                 isLoading, streamError, messages, recordingType, rendered,
                 refs, streams, timers, nextTimer, pending, sockets,
                 recorders, produced, reconnects, converting, wire>>

\* the object URLs downloadRecording has made so far; each call makes one,
\* written as a negative number to keep it apart from the preview URLs
DownloadUrls == {u \in revoked : u < 0}

\* downloadRecording (226-241), behind the Download button (316): a Blob of
\* the recordedChunks of the render, an object URL of it, the click on a
\* temporary anchor, and the revocation of that URL
Rec_downloadRecording ==
  /\ comp = "Rec" /\ mounted
  /\ rendered.previewUrl # null
  /\ rendered.recordedChunks # <<>>
  /\ Cardinality(DownloadUrls) < limit.downloads
  /\ revoked' = revoked \cup {-(Cardinality(DownloadUrls) + 1)}
  /\ Did("download")
  /\ UNCHANGED <<comp, limit, supported, editor, mounted, state, rendered, refs,
                 streams, timers, nextTimer, pending, sockets, recorders,
                 produced, reconnects, converting, wire>>

\* the transport reports the connection established
ws_onopen(w) ==
  /\ comp = "Rec"
  /\ sockets[w].state = "connecting"
  /\ sockets' = [sockets EXCEPT ![w].state = "open"]
  /\ Did("ws_onopen")
  /\ UNCHANGED <<comp, limit, supported, editor, mounted, state, rendered, refs, streams, timers,
                 nextTimer, pending, recorders, produced, reconnects, converting, wire,
                 revoked>>

\* ws.onclose, run for the close event of socket w: reconnect() arms a
\* 3000 ms timeout
ws_onclose(w) ==
  /\ comp = "Rec"
  /\ sockets' = [sockets EXCEPT
       ![w].state = "closed",
       ![w].closedWhile = IF isRecording THEN "recording" ELSE "idle"]
  /\ reconnects' = IF ShouldReconnect(sockets[w])
                     THEN Append(reconnects, sockets[w].isRecording)
                     ELSE reconnects
  /\ Did("ws_onclose")
  /\ UNCHANGED <<comp, limit, supported, editor, mounted, state, rendered, refs, streams, timers,
                 nextTimer, pending, recorders, produced, converting, wire, revoked>>

\* the closing handshake finished, or the peer closed the connection
ws_close_event(w) ==
  /\ sockets[w].state \in {"connecting", "open", "closing"}
  /\ ws_onclose(w)

\* the connection failed: the platform fires the error event, whose
\* handler ws.onerror only logs, and then the close event, in one task
ws_onerror(w) ==
  /\ sockets[w].state \in {"connecting", "open"}
  /\ ws_onclose(w)

\* The reconnect timeout fires: setupWebSocket() of the same closure.
\* A timeout is armed only by a socket whose closure saw isRecording = true;
\* startRecording is reachable only from a render with isRecording = false
\* (tailwind.config.js 286-304), so no behaviour ever enables this step
\* (ReconnectNeverArmed below) and Next does not list it.
reconnect ==
  /\ comp = "Rec"
  /\ reconnects # <<>>
  /\ Len(sockets) < limit.sockets
  /\ setupWebSocket(Head(reconnects))
  /\ reconnects' = Tail(reconnects)
  /\ Did("reconnect")
  /\ UNCHANGED <<comp, limit, supported, editor, mounted, state, rendered, streamRef, srcObject,
                 timerRef, mediaRecorderRef, streams, timers, nextTimer,
                 pending, recorders, produced, converting, wire, revoked>>

\* both effect cleanups of the recorder run at unmount
Rec_unmount ==
  /\ comp = "Rec" /\ mounted
  /\ mounted' = FALSE
  /\ timers' = ClearTimer(timers)
  /\ sockets' = CloseSocket(sockets, websocketRef)
  /\ Did("unmount")
  /\ UNCHANGED <<comp, limit, supported, editor, state, rendered, refs, streams, nextTimer, pending,
                 recorders, produced, reconnects, converting, wire, revoked>>

\* ---- EnhancedCodeEditor ------------------------------------------------
\* line 34, evaluated by every render from the initialLanguage prop
defaultLanguageOption == OptionOr0(editor.initialLanguage)

\* handleLanguageChange (82-100) and the render that follows it.  The select
\* fires its change event only for a value other than the one it shows.
\* Under ImprovedVideoChat onLanguageChange is setLanguage (line 138), whose
\* cell comes back as the initialLanguage prop (line 136).
Ed_handleLanguageChange(newLanguage) ==
  /\ comp \in Hosts /\ mounted
  /\ newLanguage # editor.language
  /\ LET languageOption == FindFrom(1, newLanguage)
         newDefaultCode == IF languageOption # null
                             THEN languageOptions[languageOption].default
                             ELSE ""
         replaces       == editor.code = ""
                             \/ editor.code = defaultLanguageOption.default
     IN editor' = [editor EXCEPT
                     !.language = newLanguage,
                     !.code = IF replaces THEN newDefaultCode ELSE @,
                     !.hostCode = IF replaces THEN newDefaultCode ELSE @,
                     !.hostLanguage = newLanguage,
                     !.initialLanguage =
                        IF comp = "IVC" THEN newLanguage ELSE @]
  /\ Did("language")
  /\ UNCHANGED <<comp, limit, supported, mounted, state, rendered, refs,
                 platform>>

\* handleChange (102-108): the textarea fires for a text other than its own
Ed_handleChange(newCode) ==
  /\ comp \in Hosts /\ mounted
  /\ newCode # editor.code
  /\ editor' = [editor EXCEPT !.code = newCode, !.hostCode = newCode,
                              !.edited = TRUE]
  /\ Did("edit")
  /\ UNCHANGED <<comp, limit, supported, mounted, state, rendered, refs,
                 platform>>

Next ==
  \/ Render
  \/ \E t \in 1..(nextTimer - 1) : Tick(t)
  \/ VC_toggleMute
  \/ VC_startWebcam
  \/ VC_startWebcam_resolved
  \/ VC_startWebcam_rejected
  \/ VC_stopWebcam
  \/ VC_unmount
  \/ IVC_toggleMute
  \/ IVC_startRecording
  \/ IVC_startRecording_resolved
  \/ IVC_startRecording_rejected
  \/ IVC_stopRecording
  \/ IVC_unmount
  \/ \E type \in Types : Rec_startRecording(type)
  \/ \E type \in Types, ctorOk \in BOOLEAN :
       Rec_startRecording_resolved(type, ctorOk)
  \/ \E type \in Types : Rec_startRecording_rejected(type)
  \/ \E i \in 1..Len(recorders), nonEmpty \in BOOLEAN :
       mediaRecorder_ondataavailable(i, nonEmpty)
  \/ \E c \in converting : ondataavailable_send(c)
  \/ \E i \in 1..Len(recorders), nonEmpty \in BOOLEAN :
       mediaRecorder_onstop(i, nonEmpty)
  \/ Rec_stopRecording
  \/ Rec_resetRecording
  \/ Rec_downloadRecording
  \/ \E w \in 1..Len(sockets) : ws_onopen(w)
  \/ \E w \in 1..Len(sockets) : ws_onerror(w)
  \/ \E w \in 1..Len(sockets) : ws_close_event(w)
  \/ Rec_unmount

Spec == Init /\ [][Next]_vars

\* any component, explored for its interval timer
SpecTmr == InitTmr /\ [][Next]_vars

\* the recorder alone
NextRec ==
  \/ Render
  \/ \E t \in 1..(nextTimer - 1) : Tick(t)
  \/ \E type \in Types : Rec_startRecording(type)
  \/ \E type \in Types, ctorOk \in BOOLEAN :
       Rec_startRecording_resolved(type, ctorOk)
  \/ \E type \in Types : Rec_startRecording_rejected(type)
  \/ \E i \in 1..Len(recorders), nonEmpty \in BOOLEAN :
       mediaRecorder_ondataavailable(i, nonEmpty)
  \/ \E c \in converting : ondataavailable_send(c)
  \/ \E i \in 1..Len(recorders), nonEmpty \in BOOLEAN :
       mediaRecorder_onstop(i, nonEmpty)
  \/ Rec_stopRecording
  \/ Rec_resetRecording
  \/ Rec_downloadRecording
  \/ \E w \in 1..Len(sockets) : ws_onopen(w)
  \/ \E w \in 1..Len(sockets) : ws_onerror(w)
  \/ \E w \in 1..Len(sockets) : ws_close_event(w)
  \/ Rec_unmount

SpecRec == InitRec /\ [][NextRec]_vars

\* the chunk pipeline of one recording: every step of the recorder except
\* the ticks of the elapsed-seconds interval, which touch recordingDuration
\* only
NextFwd ==
  \/ Render
  \/ \E type \in Types : Rec_startRecording(type)
  \/ \E type \in Types, ctorOk \in BOOLEAN :
       Rec_startRecording_resolved(type, ctorOk)
  \/ \E type \in Types : Rec_startRecording_rejected(type)
  \/ \E i \in 1..Len(recorders), nonEmpty \in BOOLEAN :
       mediaRecorder_ondataavailable(i, nonEmpty)
  \/ \E c \in converting : ondataavailable_send(c)
  \/ \E i \in 1..Len(recorders), nonEmpty \in BOOLEAN :
       mediaRecorder_onstop(i, nonEmpty)
  \/ Rec_stopRecording
  \/ Rec_resetRecording
  \/ Rec_downloadRecording
  \/ \E w \in 1..Len(sockets) : ws_onopen(w)
  \/ \E w \in 1..Len(sockets) : ws_onerror(w)
  \/ \E w \in 1..Len(sockets) : ws_close_event(w)
  \/ Rec_unmount

SpecFwd == InitFwd /\ [][NextFwd]_vars

\* the recorder as in NextFwd, where the server accepts the connections of
\* the first limit.opens sockets only
NextArt ==
  \/ Render
  \/ \E type \in Types : Rec_startRecording(type)
  \/ \E type \in Types, ctorOk \in BOOLEAN :
       Rec_startRecording_resolved(type, ctorOk)
  \/ \E type \in Types : Rec_startRecording_rejected(type)
  \/ \E i \in 1..Len(recorders), nonEmpty \in BOOLEAN :
       mediaRecorder_ondataavailable(i, nonEmpty)
  \/ \E c \in converting : ondataavailable_send(c)
  \/ \E i \in 1..Len(recorders), nonEmpty \in BOOLEAN :
       mediaRecorder_onstop(i, nonEmpty)
  \/ Rec_stopRecording
  \/ Rec_resetRecording
  \/ Rec_downloadRecording
  \/ \E w \in 1..Len(sockets) : w <= limit.opens /\ ws_onopen(w)
  \/ \E w \in 1..Len(sockets) : ws_onerror(w)
  \/ \E w \in 1..Len(sockets) : ws_close_event(w)
  \/ Rec_unmount

SpecArt == InitArt /\ [][NextArt]_vars

\* ... and where a recorder is delivered limit.slices timeslice events at
\* most, so that the counts kept in `slices` and `empty` are exact
NextCad ==
  \/ Render
  \/ \E type \in Types : Rec_startRecording(type)
  \/ \E type \in Types, ctorOk \in BOOLEAN :
       Rec_startRecording_resolved(type, ctorOk)
  \/ \E type \in Types : Rec_startRecording_rejected(type)
  \/ \E i \in 1..Len(recorders), nonEmpty \in BOOLEAN :
       /\ recorders[i].slices < limit.slices
       /\ mediaRecorder_ondataavailable(i, nonEmpty)
  \/ \E c \in converting : ondataavailable_send(c)
  \/ \E i \in 1..Len(recorders), nonEmpty \in BOOLEAN :
       mediaRecorder_onstop(i, nonEmpty)
  \/ Rec_stopRecording
  \/ Rec_resetRecording
  \/ Rec_downloadRecording
  \/ \E w \in 1..Len(sockets) : w <= limit.opens /\ ws_onopen(w)
  \/ \E w \in 1..Len(sockets) : ws_onerror(w)
  \/ \E w \in 1..Len(sockets) : ws_close_event(w)
  \/ Rec_unmount

SpecCad == InitCad /\ [][NextCad]_vars

\* one recording on every platform
SpecMime == InitMime /\ [][NextFwd]_vars

\* handleTab (110-133) for the Tab key, with the selection of the textarea
\* from start to end: code.substring(0, start) + '  ' + code.substring(end).
\* Any other key leaves the handler without effect.
Ed_handleTab(start, end) ==
  /\ comp \in Hosts /\ mounted
  /\ editor.tabs < limit.tabs
  /\ 0 <= start /\ start <= end /\ end <= Len(editor.code)
  /\ LET newCode == SubSeq(editor.code, 1, start) \o "  "
                      \o SubSeq(editor.code, end + 1, Len(editor.code))
     IN editor' = [editor EXCEPT !.code = newCode, !.hostCode = newCode,
                                 !.edited = TRUE, !.tabs = @ + 1]
  /\ Did("tab")
  /\ UNCHANGED <<comp, limit, supported, mounted, state, rendered, refs,
                 platform>>

NextEd ==
  \/ \E l \in LanguageValues : Ed_handleLanguageChange(l)
  \/ \E t \in Texts : Ed_handleChange(t)
  \/ \E start \in 0..Len(editor.code) :
       \E end \in start..Len(editor.code) : Ed_handleTab(start, end)

SpecEd == InitEd /\ [][NextEd]_vars

\* ---- properties --------------------------------------------------------
\* no reconnect timeout is ever pending, so `reconnect` is never enabled
ReconnectNeverArmed == reconnects = <<>>

\* socket w receives its close event in this step
CloseEvent(w) == sockets[w].state # "closed" /\ sockets'[w].state = "closed"

\* C1: whenever a socket's close event fires while isRecording is true,
\* exactly one reconnect timeout is armed, and no socket is constructed
\* before that timeout fires.
C1_CloseWhileRecordingSchedulesReconnect ==
  [][\A w \in 1..Len(sockets) :
       (CloseEvent(w) /\ isRecording) =>
         /\ Len(reconnects') = Len(reconnects) + 1
         /\ Len(sockets') = Len(sockets)]_vars

\* C2: a close event that fires while isRecording is false arms no
\* reconnect timeout and constructs no socket.
C2_CloseWhileIdleSchedulesNothing ==
  [][\A w \in 1..Len(sockets) :
       (CloseEvent(w) /\ ~isRecording) =>
         /\ reconnects' = reconnects
         /\ Len(sockets') = Len(sockets)]_vars

\* the socket closed by onstop got its close event while idle, and nothing
\* was scheduled or opened
C2_Witness ==
  /\ websocketRef # null
  /\ sockets[websocketRef].closedWhile = "idle"
  /\ \E i \in 1..Len(recorders) : recorders[i].state = "inactive"
  /\ reconnects = <<>>
  /\ Len(sockets) = 1

\* recorder i was stopped and its onstop handler has built the artifact
ArtifactReady(i) == recorders[i].state = "inactive"

\* C3: once a recording has been stopped, the status is idle only after
\* the artifact of that recording is ready.
C3_IdleOnlyAfterArtifactReady ==
  \A i \in 1..Len(recorders) :
    (recorders[i].state # "recording" /\ ~isRecording) =>
      ArtifactReady(i)

Live(w) == sockets[w].state \in {"connecting", "open"}

\* C4: when every start attempt so far has failed (media request rejected
\* or MediaRecorder construction failed), no socket is connecting or open.
C4_NoDanglingSocketAfterFailedStart ==
  (comp = "Rec" /\ PendingCount = 0 /\ recorders = <<>>) =>
    \A w \in 1..Len(sockets) : ~Live(w)

\* a media request is rejected in this step (its catch block runs)
Rejection == PendingCount' = PendingCount - 1 /\ Len(streams') = Len(streams)

HoldsLiveStream == streamRef # null /\ streams[streamRef].live

\* C5: after a rejected device-permission request the status is idle, no
\* live stream is held, no interval timer runs and VideoChat is not loading.
C5_RejectionLeavesIdle ==
  [][(Rejection /\ mounted) =>
       /\ ~isRecording'
       /\ ~HoldsLiveStream'
       /\ timers' = {}
       /\ (comp = "VC" => ~isLoading')]_vars

LiveStreams == {s \in 1..Len(streams) : streams[s].live}

\* C6: at most one stream has live tracks, and it is the one in streamRef.
C6_AtMostOneSession ==
  /\ Cardinality(LiveStreams) <= 1
  /\ \A s \in LiveStreams : streamRef = s

\* C7: after unmount every track is stopped, the interval is cleared, the
\* encoder is stopped and the socket is closed.
C7_UnmountCancelsEverything ==
  ~mounted =>
    /\ LiveStreams = {}
    /\ timers = {}
    /\ \A i \in 1..Len(recorders) : recorders[i].state # "recording"
    /\ \A w \in 1..Len(sockets) : ~Live(w)

\* C8: no interval tick and no chunk callback fires once the tracks of its
\* session have been stopped.
C8_NoCallbackAfterTracksStopped ==
  [][/\ (recordingTime' = recordingTime + 1) => HoldsLiveStream
     /\ \A i \in 1..Len(recorders) :
          (recorders'[i].chunks # recorders[i].chunks) =>
            streams[recorders[i].stream].live]_vars

\* onstop of recorder i runs in this step
StopCompletes(i) ==
  recorders[i].state # "inactive" /\ recorders'[i].state = "inactive"

\* C9: when stop completes, the stream that was held has no live track,
\* the preview is detached and no live stream stays referenced; a stop
\* without a session changes no capture state.
C9_StopReleasesSession ==
  [][/\ (justStopped' /\ comp # "Rec") =>
          /\ streams' = StopTracks(streams, streamRef)
          /\ ~HoldsLiveStream'
          /\ srcObject' = null
          /\ (streamRef = null =>
                UNCHANGED <<streams, streamRef, srcObject, isRecording>>)
     /\ \A i \in 1..Len(recorders) :
          (StopCompletes(i) /\ mounted) =>
            /\ ~streams'[recorders[i].stream].live
            /\ ~HoldsLiveStream'
            /\ srcObject' = null
     /\ (justStopped' /\ comp = "Rec" /\ ~isRecording) =>
          UNCHANGED <<streams, streamRef, srcObject, recorders, isRecording>>
    ]_vars

\* C10: a stop invoked directly after a stop changes nothing.
C10_StopIdempotent ==
  [][(justStopped /\ justStopped') =>
       UNCHANGED <<state, rendered, refs, platform>>]_vars

\* C11: stopRecording directly followed by resetRecording: once the stopped
\* recorder's onstop has run and no byte conversion is pending, the buffer
\* is empty, the artifact is discarded and the status is idle.
C11_EndThenResetLeavesFreshIdle ==
  (/\ comp = "Rec" /\ mounted
   /\ endReset # null
   /\ recorders[endReset].state = "inactive"
   /\ converting = {}) =>
    /\ recordedChunks = <<>>
    /\ previewUrl = null
    /\ ~isRecording

\* C12: in the recorder the chunk buffer recordedChunks is empty whenever
\* the status is idle.
C12_BufferEmptyWhileIdle ==
  (comp = "Rec" /\ ~isRecording) => recordedChunks = <<>>

\* C13: the elapsed-seconds counter is 0 whenever the status is idle.
C13_ElapsedZeroWhileIdle ==
  ~isRecording => recordingTime = 0

\* C14: every call of send is made on a socket that is open at the call.
C14_SendOnlyWhenOpen ==
  \A j \in 1..Len(wire) : wire[j].state = "open"

\* the chunks buffered by recorder i, as a set
ChunksOf(i) == {recorders[i].chunks[n] : n \in 1..Len(recorders[i].chunks)}

\* C15: the chunks of a recording are passed to send in the order the
\* encoder produced them (chunk ids count production), each at most once.
C15_SentInProductionOrder ==
  \A a, b \in 1..Len(wire) :
    (a < b /\ \E i \in 1..Len(recorders) :
                {wire[a].chunk, wire[b].chunk} \subseteq ChunksOf(i)) =>
      wire[a].chunk < wire[b].chunk

\* C16: a socket error or close event leaves the status, the held stream,
\* the encoder and the buffered chunks unchanged; every non-empty chunk the
\* encoder produces is appended to its recorder's buffer whatever the state
\* of the socket, no buffered chunk is ever dropped, and onstop hands the
\* whole buffer to the artifact.
C16_TransportFailureNeverAborts ==
  [][/\ \A w \in 1..Len(sockets) :
          CloseEvent(w) =>
            UNCHANGED <<isRecording, recordingType, streamRef, streams,
                        mediaRecorderRef, recorders, recordedChunks,
                        previewUrl>>
     /\ (produced' = produced + 1) =>
          \E i \in 1..Len(recorders) :
            recorders'[i].chunks = Append(recorders[i].chunks, produced + 1)
     /\ \A i \in 1..Len(recorders) :
          /\ Len(recorders'[i].chunks) >= Len(recorders[i].chunks)
          /\ SubSeq(recorders'[i].chunks, 1, Len(recorders[i].chunks))
               = recorders[i].chunks
          /\ (StopCompletes(i) /\ mounted) =>
               /\ recordedChunks' = recorders'[i].chunks
               /\ previewUrl' = i
    ]_vars

\* the socket carried the first chunk and was then lost while recording;
\* the second chunk, produced afterwards, was buffered without a forward
\* attempt and the artifact holds both
C16_Witness ==
  /\ websocketRef # null
  /\ sockets[websocketRef].closedWhile = "recording"
  /\ Len(wire) = 1 /\ wire[1].chunk = 1 /\ wire[1].state = "open"
  /\ converting = {}
  /\ \E i \in 1..Len(recorders) :
       /\ recorders[i].state = "inactive"
       /\ recorders[i].chunks = <<1, 2>>
       /\ recordedChunks = recorders[i].chunks
       /\ previewUrl = i
  /\ ~isRecording

\* C18: in the recorder a socket is connecting or open only while the
\* status is recording.
C18_SocketOnlyWhileRecording ==
  comp = "Rec" => \A w \in 1..Len(sockets) : Live(w) => isRecording

\* every chunk that some recorder has buffered
Buffered == UNION {ChunksOf(i) : i \in 1..Len(recorders)}

\* C19: a chunk whose byte conversion is pending or that has been passed to
\* send is already in the local buffer.
C19_BufferedBeforeForward ==
  /\ converting \subseteq Buffered
  /\ \A j \in 1..Len(wire) : wire[j].chunk \in Buffered

\* a later chunk is buffered while the forward of an earlier chunk has not
\* completed
C19_Witness ==
  \E c \in converting : \E k \in Buffered :
    /\ k > c
    /\ c \in Buffered
    /\ \A j \in 1..Len(wire) : wire[j].chunk # c

\* C20: stopRecording sets the status to idle, and when the stopped
\* recorder's onstop runs with no chunk buffered it still publishes an
\* artifact (an object URL of the empty blob) and an empty recordedChunks,
\* and leaves the status alone.
C20_StopBeforeFirstChunkGivesEmptyArtifact ==
  [][\A i \in 1..Len(recorders) :
       /\ (recorders[i].state = "recording"
             /\ recorders'[i].state = "stopping") => ~isRecording'
       /\ (/\ recorders[i].state = "stopping"
           /\ recorders'[i].state = "inactive"
           /\ recorders'[i].chunks = <<>>
           /\ mounted) =>
            /\ previewUrl' = i
            /\ recordedChunks' = <<>>
            /\ UNCHANGED isRecording]_vars

\* a recording stopped before any chunk was produced has an artifact
C20_Witness ==
  /\ produced = 0
  /\ mediaRecorderRef # null
  /\ recorders[mediaRecorderRef].state = "inactive"
  /\ recorders[mediaRecorderRef].chunks = <<>>
  /\ previewUrl = mediaRecorderRef
  /\ recordedChunks = <<>>
  /\ ~isRecording

\* sequence q lists chunk ids in strictly increasing (production) order
InProductionOrder(q) ==
  \A a, b \in 1..Len(q) : a < b => q[a] < q[b]

\* C21: every recorder's buffer holds the non-empty chunks produced for it,
\* in production order, each once, and none of another recording (the
\* buffers are disjoint and together hold every chunk produced); onstop
\* publishes exactly that buffer as the artifact, and the chunks kept for
\* download are those of the artifact shown, in the state and in the render
\* whose Download button is clicked.
C21_ArtifactIsTheRecording ==
  /\ \A i \in 1..Len(recorders) : InProductionOrder(recorders[i].chunks)
  /\ \A i, j \in 1..Len(recorders) :
       i # j => ChunksOf(i) \cap ChunksOf(j) = {}
  /\ Buffered = 1..produced
  /\ (comp = "Rec" /\ previewUrl # null) =>
       /\ recorders[previewUrl].state = "inactive"
       /\ recordedChunks = recorders[previewUrl].chunks
  /\ (comp = "Rec" /\ rendered.previewUrl # null) =>
       rendered.recordedChunks = recorders[rendered.previewUrl].chunks

\* after a first recording of one chunk, a second recording of three chunks
\* was stopped: its artifact holds those three and the render shows it
C21_Witness ==
  /\ Len(recorders) = 2
  /\ recorders[1].chunks = <<1>>
  /\ previewUrl = 2
  /\ recordedChunks = <<2, 3, 4>>
  /\ rendered.recordedChunks = <<2, 3, 4>>

\* the same with a server that takes the chunks: one recording of three
\* chunks, all three sent
C21_WitnessForwarded ==
  /\ previewUrl = 1
  /\ recordedChunks = <<1, 2, 3>>
  /\ Len(wire) = 3

\* the object URLs created so far: one per recorder whose onstop has run
CreatedUrls == {i \in 1..Len(recorders) : recorders[i].state = "inactive"}

\* C23: when isRecording becomes true every object URL created for an
\* earlier recording has been revoked and previewUrl is null; and a preview
\* URL leaves the state only revoked.
C23_NewRecordingSupersedesArtifact ==
  [][/\ (~isRecording /\ isRecording') =>
          /\ previewUrl' = null
          /\ CreatedUrls \subseteq revoked'
     /\ (previewUrl # null /\ previewUrl' # previewUrl) =>
          previewUrl \in revoked'
    ]_vars

\* a capture session is active: the status is recording and the held
\* stream has live tracks
ActiveSession == isRecording /\ HoldsLiveStream

\* C24: while a session is active in VideoChat or ImprovedVideoChat the
\* enabled flag of the audio tracks is the negation of isMuted.
C24_AudioEnabledIsNotMuted ==
  (comp \in {"VC", "IVC"} /\ ActiveSession) =>
    streams[streamRef].audio = ~isMuted

\* the first entry of the preference list that the platform supports, or
\* the generic default when it supports none
FirstSupported ==
  IF \E n \in 1..Len(types) : types[n] \in supported
    THEN types[CHOOSE n \in 1..Len(types) :
                 /\ types[n] \in supported
                 /\ \A m \in 1..(n - 1) : types[m] \notin supported]
    ELSE "video/webm"

\* C25: getMimeType returns the first supported entry of the preference
\* list, or 'video/webm' when none is supported; every MediaRecorder is
\* constructed with that type.
C25_FirstSupportedProfile ==
  /\ getMimeType = FirstSupported
  /\ \A i \in 1..Len(recorders) : recorders[i].mimeType = FirstSupported

\* a recorder was constructed where the first two entries are unsupported
C25_Witness ==
  /\ supported = {types[3], types[4]}
  /\ recorders # <<>>
  /\ recorders[1].mimeType = types[3]

\* a recorder was constructed on a platform that supports no entry
C25_WitnessDefault ==
  /\ supported = {}
  /\ recorders # <<>>
  /\ recorders[1].mimeType = "video/webm"

\* C26: when a media request is rejected the component puts the failure in
\* user-visible state: streamError in ImprovedVideoChat, a system message
\* in VideoChat, and some change of rendered state in the recorder.
C26_FailedStartIsSurfaced ==
  [][(Rejection /\ mounted) =>
       CASE comp = "IVC" -> streamError' = "message"
         [] comp = "VC" ->
              messages' =
                Append(messages,
                       Message("system", "Error accessing webcam: message"))
         [] OTHER -> state' # state]_vars

\* a recording newer than recorder i is in progress
NewerRecording(i) ==
  \E j \in (i + 1)..Len(recorders) : recorders[j].state = "recording"

\* C27: the onstop of recorder i stops the tracks of no stream other than
\* the one it recorded, and while a newer recording is in progress it
\* neither closes the socket in websocketRef nor publishes a preview.
C27_OnstopTouchesOwnResourcesOnly ==
  [][\A i \in 1..Len(recorders) :
       StopCompletes(i) =>
         /\ \A s \in 1..Len(streams) :
              s # recorders[i].stream => streams'[s] = streams[s]
         /\ NewerRecording(i) =>
              /\ sockets'[websocketRef] = sockets[websocketRef]
              /\ previewUrl' = previewUrl]_vars

LiveSockets == {w \in 1..Len(sockets) : Live(w)}

\* C28: in the recorder at most one socket is connecting or open, and it
\* is the one websocketRef holds.
C28_AtMostOneLiveSocket ==
  comp = "Rec" =>
    /\ Cardinality(LiveSockets) <= 1
    /\ \A w \in LiveSockets : websocketRef = w

\* the [isRecording] effect has run for the current value of isRecording
EffectRan == mounted /\ rendered.isRecording = isRecording

\* C29: at most one interval is scheduled; once the timer effect has run
\* an interval is scheduled exactly while the status is recording; none is
\* left after unmount; and between two recording states the counter stays
\* or grows by exactly 1.
C29_OneTimerWhileRecording ==
  [][/\ Cardinality(timers') <= 1
     /\ EffectRan' => (timers' # {} <=> isRecording')
     /\ ~mounted' => timers' = {}
     /\ (isRecording /\ isRecording') =>
          recordingTime' \in {recordingTime, recordingTime + 1}]_vars

\* the interval of a finished recording was cleared by the effect of the
\* render that followed the stop
C29_Witness ==
  /\ EffectRan /\ ~isRecording
  /\ nextTimer = 2 /\ timerRef = 1 /\ timers = {}
  /\ justStopped = FALSE
  /\ streams # <<>> /\ ~streams[1].live

\* the default snippet of language l
DefaultOf(l) == OptionOr0(l).default

\* C30: a language change made while the code is empty or is the default
\* snippet of the language selected so far replaces the code by the default
\* snippet of the new language and passes it to onChange, and any other
\* language change leaves the code as it is; hence, as long as the user has
\* not edited, the code is the default snippet of the selected language,
\* whether the initialLanguage prop follows the selection or stays fixed.
C30_LanguageChangeKeepsDefault ==
  /\ [][editor.language' # editor.language =>
          IF editor.code = "" \/ editor.code = DefaultOf(editor.language)
            THEN /\ editor.code' = DefaultOf(editor.language')
                 /\ editor.hostCode' = DefaultOf(editor.language')
            ELSE editor.code' = editor.code]_vars
  /\ [](~editor.edited => editor.code = DefaultOf(editor.language))

\* the same under ImprovedVideoChat alone, where the prop follows
C30_UnderImprovedVideoChat ==
  /\ [][comp = "IVC" /\ editor.language' # editor.language =>
          IF editor.code = "" \/ editor.code = DefaultOf(editor.language)
            THEN /\ editor.code' = DefaultOf(editor.language')
                 /\ editor.hostCode' = DefaultOf(editor.language')
            ELSE editor.code' = editor.code]_vars
  /\ [](comp = "IVC" /\ ~editor.edited =>
          editor.code = DefaultOf(editor.language))

\* two language changes without an edit under a host with a fixed prop
C30_SecondChangeFixedProp ==
  /\ comp = "Editor" /\ ~editor.edited
  /\ editor.language # OptionOr0(editor.initialLanguage).value
  /\ editor.code # DefaultOf(editor.language)

\* recording i is at its end: its onstop has run
AtEnd(i) == recorders[i].state = "inactive"

\* the distance between two counts
Distance(a, b) == IF a < b THEN b - a ELSE a - b

\* C22: for every recording, the number of chunks in the buffer at end
\* differs by at most 1 from the number of full cadence intervals elapsed
\* between begin and end, that is, from the number of timeslice events the
\* recorder was delivered.
C22_ChunksWithinOneOfIntervals ==
  \A i \in 1..Len(recorders) :
    AtEnd(i) => Distance(Len(recorders[i].chunks), recorders[i].slices) <= 1

\* C22 as amended: for every recording, the number of chunks in the buffer
\* at end differs by at most 1 from the number of full cadence intervals
\* elapsed whose data was not empty; it is never less than that number, and
\* it is that number until the end, so that the one chunk more is the final
\* flush of stop.
C22_ChunksWithinOneOfNonEmptyIntervals ==
  \A i \in 1..Len(recorders) :
    LET nonEmptySlices == recorders[i].slices - recorders[i].empty
    IN /\ Len(recorders[i].chunks) >= nonEmptySlices
       /\ Len(recorders[i].chunks) <= nonEmptySlices + 1
       /\ ~AtEnd(i) => Len(recorders[i].chunks) = nonEmptySlices

\* a recording ended after three intervals, two of them without data, and
\* a final flush with data: two chunks
C22_Witness ==
  \E i \in 1..Len(recorders) :
    /\ AtEnd(i)
    /\ recorders[i].slices = 3 /\ recorders[i].empty = 2
    /\ Len(recorders[i].chunks) = 2
====
